---- MODULE Spec2Model ----
(***************************************************************************)
(* ZK-GovProof: the three circom circuits (compute_threshold,              *)
(* evaluation_attestation, policy_compliance) and the scripts that         *)
(* generate, persist, bundle and verify their Groth16 proofs.              *)
(*                                                                         *)
(* Scaling.  The circuits live in the BN128 scalar field, a prime p with   *)
(* 2^253 < p < 2^254, the threshold comparator is LessThan(252) and the    *)
(* aggregation comparator GreaterEqThan(8).  TLC has 32-bit integers, so   *)
(* the model keeps the shape and shrinks the sizes: FieldPrime is a prime  *)
(* with 2^(ThresholdBits+1) < FieldPrime < 2^(ThresholdBits+2) and         *)
(* FieldPrime / 2^(ThresholdBits+1) ~ 1.5 as for BN128, and AggBits is     *)
(* smaller than ThresholdBits but wide enough for the flag counts 5 and 8. *)
(* The demo's 5e24 / 1e25 / 2e25 become 5 / 10 / 20.                       *)
(***************************************************************************)
EXTENDS Integers, Naturals, Sequences, FiniteSets, TLC

VARIABLES
    cres,          \* circuit harness: one fullProve call and its outcome
    proofFile,     \* data/<circuit>_proof.json, per circuit
    publicFile,    \* data/<circuit>_public.json, per circuit
    compositeFile, \* data/composite_proof.json
    packFiles,     \* data/policy_packs/<id>_<stamp>/{artifacts.json, report.md}
    script,        \* the script run in progress: its name, position and locals
    generated,     \* history: every result fullProve returned, with its run
    genCount,      \* number of proofs the proving engine has produced
    runs,          \* number of script runs started (the clock of timestamps)
    audit,         \* the last stand-alone verification call and its result
    keyFile,       \* build/<circuit>/verification_key.json, per circuit
    dataDir,       \* whether the directory data/ exists
    earlier,       \* a verification call the verifier made before, kept to repeat
    tasks,         \* generateProof calls in flight side by side, per circuit
    gadget         \* template harness: one template instance and its outcome

vars == <<cres, proofFile, publicFile, compositeFile, packFiles, script,
          generated, genCount, runs, audit, keyFile, dataDir, earlier, tasks,
          gadget>>

lifeVars == <<proofFile, publicFile, compositeFile, packFiles, script,
              generated, genCount, runs, audit, keyFile, dataDir, earlier, tasks,
              gadget>>

-----------------------------------------------------------------------------
(* Sizes *)

FieldPrime == 97
ThresholdBits == 5
AggBits == 4
EvalN == 5
PolicyN == 8

Field == 0 .. (FieldPrime - 1)

None == "none"

Circuits == {"compute_threshold", "evaluation_attestation", "policy_compliance"}

-----------------------------------------------------------------------------
(* Field arithmetic of the constraint system *)

FAdd(a, b) == (a + b) % FieldPrime
FSub(a, b) == (a - b + FieldPrime) % FieldPrime
FMul(a, b) == (a * b) % FieldPrime

RECURSIVE Pow2(_)
Pow2(n) == IF n = 0 THEN 1 ELSE 2 * Pow2(n - 1)

\* the values a signal constrained by  x * (x - 1) === 0  can take
BoolRoots == { x \in Field : FMul(x, FSub(x, 1)) = 0 }

-----------------------------------------------------------------------------
(* Num2Bits(n) *)

\* mutant: the hint takes bit i + 1 of the value
Num2BitsHint_NextBit(in, n) == [ i \in 0 .. (n - 1) |-> (in \div Pow2(i + 1)) % 2 ]

\* out[i] <-- (in >> i) & 1 : the witness program's assignment
Num2BitsHint(in, n) == [ i \in 0 .. (n - 1) |-> (in \div Pow2(i)) % 2 ]

\* lc1 after the loop: sum of out[i] * e2, e2 doubling from 1
RECURSIVE Lc1(_, _)
Lc1(out, n) ==
    IF n = 0 THEN 0
    ELSE FAdd(Lc1(out, n - 1), FMul(out[n - 1], Pow2(n - 1) % FieldPrime))

\* mutant: the bits are not constrained to 0 or 1
Num2Bits_NoBoolean(in, out, n) == Lc1(out, n) = in

\* out[i] * (out[i] - 1) === 0  for every i, and  lc1 === in
Num2Bits(in, out, n) ==
    /\ \A i \in 0 .. (n - 1) : FMul(out[i], FSub(out[i], 1)) = 0
    /\ Lc1(out, n) = in

-----------------------------------------------------------------------------
(* LessThan(n), GreaterEqThan(n) *)

\* mutant: the 2^n offset is left out
LessThanN2bIn_NoOffset(in0, in1, n) == FSub(in0, in1)

\* n2b.in <== in[0] + (1<<n) - in[1]
LessThanN2bIn(in0, in1, n) == FSub(FAdd(in0, Pow2(n) % FieldPrime), in1)

\* mutant: bit n is passed on as it is
LessThanOut_NoInvert(bits, n) == bits[n]

\* out <== 1 - n2b.out[n]
LessThanOut(bits, n) == FSub(1, bits[n])

\* the constraints of LessThan(n) on inputs in0, in1 with n2b.out = bits
LessThan(in0, in1, bits, n) == Num2Bits(LessThanN2bIn(in0, in1, n), bits, n + 1)

\* mutant: the two inputs are wired to the comparator the other way round
GreaterEqThan_Swapped(in0, in1, bits, n) == LessThan(in1, in0, bits, n)

\* the constraints of GreaterEqThan(n): lt.in[0] <== in[0]; lt.in[1] <== in[1]
GreaterEqThan(in0, in1, bits, n) == LessThan(in0, in1, bits, n)

\* mutant: the comparator's output is passed on without the inversion
GreaterEqThanOut_NoInvert(bits, n) == LessThanOut(bits, n)

\* out <== 1 - lt.out
GreaterEqThanOut(bits, n) == FSub(1, LessThanOut(bits, n))

-----------------------------------------------------------------------------
(* ComputeThreshold() *)

\* valid <== rangeCheck.out
ComputeThresholdValid(bits) == LessThanOut(bits, ThresholdBits)

\* mutant: valid is exposed but not constrained to 1
ComputeThreshold_ValidFree(privateCompute, threshold, bits) ==
    LessThan(privateCompute, threshold, bits, ThresholdBits)

\* all constraints, for the assignment that gives n2b.out the value bits;
\* difference <== threshold - privateCompute is satisfied by construction
ComputeThreshold(privateCompute, threshold, bits) ==
    /\ FSub(threshold, privateCompute) \in Field
    /\ LessThan(privateCompute, threshold, bits, ThresholdBits)
    /\ ComputeThresholdValid(bits) = 1

-----------------------------------------------------------------------------
(* EvaluationAttestation(N) / PolicyCompliance(N) *)

\* mutant: the running sum is not carried over from the entry before
completedSum_NotCarried(flags, i) == flags[i]

\* completedSum[i] / itemSum[i]: the running sum, in the field
RECURSIVE completedSum(_, _)
completedSum(flags, i) ==
    IF i = 0 THEN flags[0] ELSE FAdd(completedSum(flags, i - 1), flags[i])

EvaluationAttestation(evaluationFlags, requiredCount, bits, N) ==
    /\ \A i \in 0 .. (N - 1) :
          FMul(evaluationFlags[i], FSub(evaluationFlags[i], 1)) = 0
    /\ LessThan(completedSum(evaluationFlags, N - 1), requiredCount, bits, AggBits)
    /\ GreaterEqThanOut(bits, AggBits) = 1

RECURSIVE itemSum(_, _)
itemSum(items, i) ==
    IF i = 0 THEN items[0] ELSE FAdd(itemSum(items, i - 1), items[i])

PolicyCompliance(policyItems, minRequired, bits, N) ==
    /\ \A i \in 0 .. (N - 1) :
          FMul(policyItems[i], FSub(policyItems[i], 1)) = 0
    /\ LessThan(itemSum(policyItems, N - 1), minRequired, bits, AggBits)
    /\ GreaterEqThanOut(bits, AggBits) = 1

-----------------------------------------------------------------------------
(* Witness existence and witness computation, per circuit.                 *)
(* An input record is [priv |-> ..., pub |-> ...]: priv is privateCompute  *)
(* or the flag array, pub is threshold / requiredCount / minRequired.      *)

\* some assignment of the free signals (the comparator bits) satisfies all
\* constraints; every other signal is fixed by a <== constraint
Satisfiable(circuit, input) ==
    CASE circuit = "compute_threshold" ->
           \E bits \in [0 .. ThresholdBits -> BoolRoots] :
               ComputeThreshold(input.priv, input.pub, bits)
      [] circuit = "evaluation_attestation" ->
           \E bits \in [0 .. AggBits -> BoolRoots] :
               EvaluationAttestation(input.priv, input.pub, bits, EvalN)
      [] circuit = "policy_compliance" ->
           \E bits \in [0 .. AggBits -> BoolRoots] :
               PolicyCompliance(input.priv, input.pub, bits, PolicyN)

\* the bits the witness program assigns
WitnessBits(circuit, input) ==
    CASE circuit = "compute_threshold" ->
           Num2BitsHint(LessThanN2bIn(input.priv, input.pub, ThresholdBits),
                        ThresholdBits + 1)
      [] circuit = "evaluation_attestation" ->
           Num2BitsHint(LessThanN2bIn(completedSum(input.priv, EvalN - 1),
                                      input.pub, AggBits), AggBits + 1)
      [] circuit = "policy_compliance" ->
           Num2BitsHint(LessThanN2bIn(itemSum(input.priv, PolicyN - 1),
                                      input.pub, AggBits), AggBits + 1)

\* the witness program runs to the end: every === holds on its assignment
WitnessOk(circuit, input) ==
    CASE circuit = "compute_threshold" ->
           ComputeThreshold(input.priv, input.pub, WitnessBits(circuit, input))
      [] circuit = "evaluation_attestation" ->
           EvaluationAttestation(input.priv, input.pub,
                                 WitnessBits(circuit, input), EvalN)
      [] circuit = "policy_compliance" ->
           PolicyCompliance(input.priv, input.pub,
                            WitnessBits(circuit, input), PolicyN)

\* the output signal `valid` of the computed witness
WitnessValid(circuit, input) ==
    IF circuit = "compute_threshold"
    THEN ComputeThresholdValid(WitnessBits(circuit, input))
    ELSE GreaterEqThanOut(WitnessBits(circuit, input), AggBits)

\* publicSignals: the output first, then the declared public input
PublicSignals(circuit, input) == << WitnessValid(circuit, input), input.pub >>

-----------------------------------------------------------------------------
(* The failed assertion.  The witness program runs the templates in source  *)
(* order and stops at the first === that does not hold; the error it throws *)
(* names the template and the constraint.                                   *)

TemplateOf(circuit) ==
    CASE circuit = "compute_threshold" -> "ComputeThreshold"
      [] circuit = "evaluation_attestation" -> "EvaluationAttestation"
      [] circuit = "policy_compliance" -> "PolicyCompliance"

Site(template, constraint) == [template |-> template, constraint |-> constraint]

NoError == Site(None, << >>)

\* the === assertions in the order the witness program reaches them: the
\* flag checks of the main template, lc1 === in of the comparator's
\* Num2Bits, valid === 1.  out[i] * (out[i] - 1) === 0 of Num2Bits is not
\* listed: out[i] <-- (in >> i) & 1 makes it hold on every run.
ConstraintsInOrder(circuit) ==
    IF circuit = "compute_threshold"
    THEN << Site("Num2Bits", <<"lc1 === in">>),
            Site("ComputeThreshold", <<"valid === 1">>) >>
    ELSE << Site(TemplateOf(circuit), <<"flag * (flag - 1) === 0">>),
            Site("Num2Bits", <<"lc1 === in">>),
            Site(TemplateOf(circuit), <<"valid === 1">>) >>

\* n2b.in of the circuit's comparator
ComparatorIn(circuit, input) ==
    CASE circuit = "compute_threshold" ->
           LessThanN2bIn(input.priv, input.pub, ThresholdBits)
      [] circuit = "evaluation_attestation" ->
           LessThanN2bIn(completedSum(input.priv, EvalN - 1), input.pub, AggBits)
      [] circuit = "policy_compliance" ->
           LessThanN2bIn(itemSum(input.priv, PolicyN - 1), input.pub, AggBits)

\* the assertion at `site` holds on the assignment the witness program makes
Holds(circuit, input, site) ==
    CASE site.constraint = <<"flag * (flag - 1) === 0">> ->
           \A i \in DOMAIN input.priv :
               FMul(input.priv[i], FSub(input.priv[i], 1)) = 0
      [] site.constraint = <<"lc1 === in">> ->
           Lc1(WitnessBits(circuit, input),
               IF circuit = "compute_threshold" THEN ThresholdBits + 1
                                                ELSE AggBits + 1)
             = ComparatorIn(circuit, input)
      [] site.constraint = <<"valid === 1">> -> WitnessValid(circuit, input) = 1

\* the position in ConstraintsInOrder of the first assertion that fails,
\* 0 if none does
FirstFailing(circuit, input) ==
    LET cs == ConstraintsInOrder(circuit)
        bad == { i \in 1 .. Len(cs) : ~Holds(circuit, input, cs[i]) } IN
    IF bad = {} THEN 0 ELSE CHOOSE i \in bad : \A j \in bad : i <= j

\* mutant: the message of a failed lc1 === in carries the value of `in`
AssertFailed_WithValue(circuit, input) ==
    LET k == FirstFailing(circuit, input) IN
    IF k = 0 THEN NoError
    ELSE IF ConstraintsInOrder(circuit)[k].constraint = <<"lc1 === in">>
         THEN Site("Num2Bits", <<"lc1 === in", ComparatorIn(circuit, input)>>)
         ELSE ConstraintsInOrder(circuit)[k]

\* the error the witness program throws: the first assertion that fails
AssertFailed(circuit, input) ==
    LET k == FirstFailing(circuit, input) IN
    IF k = 0 THEN NoError ELSE ConstraintsInOrder(circuit)[k]

-----------------------------------------------------------------------------
(* The proving and verification engine (snarkjs groth16), as the scripts   *)
(* use it.  A proof is modelled by what it attests: the circuit whose      *)
(* proving key made it and the public signals of the witness, plus the     *)
(* number of the generation that produced it (Groth16 proofs are           *)
(* randomised, so two generations give two different proofs) and whether   *)
(* its bytes are still the ones the prover wrote.                          *)

\* no proof object / no public signals (nothing returned, file absent)
NoProof == [circuit |-> None, pub |-> << >>, id |-> 0, intact |-> FALSE]

NoSignals == << >>

NoResult == [ok |-> FALSE, proof |-> NoProof, publicSignals |-> NoSignals,
             error |-> NoError]

\* groth16.fullProve(input, wasmPath, zkeyPath): computes the witness with
\* the circuit's wasm, throws if a constraint fails, else proves with the
\* circuit's zkey; id is the number of this generation
fullProve(circuit, input, id) ==
    IF WitnessOk(circuit, input)
    THEN [ok |-> TRUE,
          proof |-> [circuit |-> circuit, pub |-> PublicSignals(circuit, input),
                     id |-> id, intact |-> TRUE],
          publicSignals |-> PublicSignals(circuit, input),
          error |-> NoError]
    ELSE [NoResult EXCEPT !.error = AssertFailed(circuit, input)]

\* groth16.verify(vKey, publicSignals, proof); a verification key is
\* modelled by the circuit whose setup exported it (vKeyOf)
groth16Verify(vKeyOf, publicSignals, proof) ==
    /\ proof.intact
    /\ proof.circuit = vKeyOf
    /\ proof.pub = publicSignals

-----------------------------------------------------------------------------
(* Circuit harness: fullProve applied to inputs from the whole field *)

BadFlagValues == {2, FieldPrime - 1}

\* flag arrays: every 0/1 array, and the all-zero and the all-one array with
\* one entry replaced by a non-boolean value
FlagArrays(N) ==
    [0 .. (N - 1) -> {0, 1}] \cup
    { [f EXCEPT ![i] = b] : f \in {[j \in 0 .. (N - 1) |-> 0], [j \in 0 .. (N - 1) |-> 1]},
                            i \in 0 .. (N - 1), b \in BadFlagValues }

\* the calls the harness makes: one circuit and one input record
CircuitInputs ==
    { [circuit |-> "compute_threshold", input |-> [priv |-> v, pub |-> T]] :
          v \in Field, T \in Field } \cup
    { [circuit |-> "evaluation_attestation", input |-> [priv |-> f, pub |-> k]] :
          f \in FlagArrays(EvalN), k \in Field } \cup
    { [circuit |-> "policy_compliance", input |-> [priv |-> f, pub |-> k]] :
          f \in FlagArrays(PolicyN), k \in Field }

CircuitCall(circuit) ==
    /\ cres.circuit = circuit
    /\ ~cres.called
    /\ cres' = [cres EXCEPT !.called = TRUE,
                   !.ok = fullProve(circuit, cres.input, 1).ok,
                   !.proof = fullProve(circuit, cres.input, 1).proof,
                   !.publicSignals = fullProve(circuit, cres.input, 1).publicSignals]
    /\ UNCHANGED lifeVars

ProveComputeThreshold == CircuitCall("compute_threshold")

ProveEvaluationAttestation == CircuitCall("evaluation_attestation")

ProvePolicyCompliance == CircuitCall("policy_compliance")

-----------------------------------------------------------------------------
(* The scripts.  One script runs at a time; a run is a sequence of steps,  *)
(* one per await or file write of its main().                              *)

MaxRuns == 2

\* the inputs the scripts hard-code (5e24, 1e25, 2e25 scaled; '5'; '8')
DemoCompute == 5
DemoThreshold == 10
DemoBadCompute == 20
DemoRequiredCount == 5
DemoMinRequired == 8

Order == << "compute_threshold", "evaluation_attestation", "policy_compliance" >>

AllOnes(N) == [i \in 0 .. (N - 1) |-> 1]

\* flags = [1,1,1,0,1,...]: the entry at index 3 unset
OneUnset(N) == [i \in 0 .. (N - 1) |-> IF i = 3 THEN 0 ELSE 1]

\* flags = [1,1,1,2,1,...]: the entry at index 3 is not a flag
NotBinary(N) == [i \in 0 .. (N - 1) |-> IF i = 3 THEN 2 ELSE 1]

\* generateIndividualProofs / demo main (positive path): the compliant inputs
CompliantInputs ==
    [c \in Circuits |->
        CASE c = "compute_threshold" -> [priv |-> DemoCompute, pub |-> DemoThreshold]
          [] c = "evaluation_attestation" -> [priv |-> AllOnes(EvalN), pub |-> DemoRequiredCount]
          [] c = "policy_compliance" -> [priv |-> AllOnes(PolicyN), pub |-> DemoMinRequired]]

\* demo main, negative test: privateCompute = 2e25 against threshold = 1e25
NegativeInput == [priv |-> DemoBadCompute, pub |-> DemoThreshold]

\* arguments of generateComputeThresholdProof, generateEvaluationProof and
\* generatePolicyComplianceProof: the examples of main, non-compliant ones,
\* and the example with another public threshold
ArgumentChoices ==
    { [c \in Circuits |->
        CASE c = "compute_threshold" -> [priv |-> v, pub |-> DemoThreshold]
          [] c = "evaluation_attestation" -> [priv |-> e, pub |-> DemoRequiredCount]
          [] c = "policy_compliance" -> [priv |-> q, pub |-> DemoMinRequired]] :
      v \in {DemoCompute, DemoBadCompute},
      e \in {AllOnes(EvalN), OneUnset(EvalN)},
      q \in {AllOnes(PolicyN), OneUnset(PolicyN)} } \cup
    { [CompliantInputs EXCEPT !["compute_threshold"].pub = DemoThreshold + 1] }

\* policy packs: public_threshold_flops, required_count_public,
\* min_required_public and the example_private_inputs
ExamplePacks ==
    { [c \in Circuits |->
        CASE c = "compute_threshold" -> [priv |-> v, pub |-> DemoThreshold]
          [] c = "evaluation_attestation" -> [priv |-> e, pub |-> k]
          [] c = "policy_compliance" -> [priv |-> q, pub |-> DemoMinRequired]] :
      v \in {DemoCompute, DemoBadCompute},
      e \in {AllOnes(EvalN), OneUnset(EvalN)}, k \in {DemoRequiredCount - 1, DemoRequiredCount},
      q \in {AllOnes(PolicyN), OneUnset(PolicyN)} }

\* the example packs, and the compliant pack with its compute value far
\* above the threshold, with an evaluation flag that is not 0 or 1, or with
\* a required count that is not below the field prime
PolicyPacks ==
    ExamplePacks \cup
    { [CompliantInputs EXCEPT !["compute_threshold"].priv = v] :
          v \in {FieldPrime \div 2, FieldPrime \div 2 + 1} } \cup
    { [CompliantInputs EXCEPT !["evaluation_attestation"].priv = NotBinary(EvalN)],
      [CompliantInputs EXCEPT !["evaluation_attestation"].pub =
                                  FieldPrime + DemoRequiredCount] }

NoMember == [proof |-> NoProof, publicSignals |-> NoSignals, claim |-> None]

NoComposite ==
    [version |-> None, timestamp |-> 0, proofs |-> [c \in Circuits |-> NoMember],
     metadata |-> [submitter |-> None, framework |-> None, compositionMethod |-> None]]

NoPackMember == [proof |-> NoProof, publicSignals |-> NoSignals, claim |-> << >>]

NoArtifacts == [generated_at |-> 0, proofs |-> [c \in Circuits |-> NoPackMember]]

NoReport == [generated_at |-> 0, claims |-> << >>, publicSignals |-> << >>]

\* an output directory of the policy-pack runner with no file in it
NoPackDir == [artifacts |-> NoArtifacts, report |-> NoReport]

NoCallInfo == [circuit |-> None, failed |-> FALSE,
               proof |-> NoProof, publicSignals |-> NoSignals,
               proofBefore |-> [c \in Circuits |-> NoProof],
               publicBefore |-> [c \in Circuits |-> NoSignals]]

\* a run: the script, its position, and the locals of its main()
\*   cur      index into Order of the circuit being processed
\*   inputs   the input record of each circuit
\*   res      the {proof, publicSignals} main holds for each circuit
\*   failed   circuits whose fullProve threw
\*   call     the generation call in progress or last made: its circuit,
\*            whether fullProve threw, its locals proof and publicSignals,
\*            and the files as they were when it began
\*   composite, results, allValid   locals of the composite / verify mains
\*   exitCode process exit status
\*   log      the calls of groth16.fullProve and of the verification
\*            functions the run has made, in order
\*   error    the error the run's catch handler printed
NewRun(name, pc, inputs) ==
    [name |-> name, pc |-> pc, cur |-> 1, inputs |-> inputs,
     res |-> [c \in Circuits |-> NoResult], failed |-> {},
     call |-> NoCallInfo, composite |-> NoComposite,
     results |-> << >>, allValid |-> FALSE, exitCode |-> 0, log |-> << >>,
     error |-> NoError]

\* one entry of the log: the operation, its circuit, its arguments, and
\* whether it succeeded (returned a proof / returned true)
Call(op, circuit, args, ok) ==
    [op |-> op, circuit |-> circuit, args |-> args, ok |-> ok]

NoScript == NewRun(None, "idle", CompliantInputs)

NoAudit == [kind |-> None, key |-> None, publicSignals |-> NoSignals,
            proof |-> NoProof, sigFrom |-> 0, proofFrom |-> 0,
            artifact |-> NoComposite, results |-> << >>, verdict |-> FALSE,
            calls |-> << >>, exitCode |-> 0,
            other |-> NoComposite, otherResults |-> << >>,
            otherVerdict |-> FALSE]

\* nothing remembered / no task started / the template harness at rest
NoEarlier == [key |-> None, publicSignals |-> NoSignals, proof |-> NoProof,
              verdict |-> FALSE]

NoTasks ==
    [c \in Circuits |-> [pc |-> "idle", input |-> CompliantInputs[c],
                         proof |-> NoProof, publicSignals |-> NoSignals,
                         error |-> NoError]]

NoGadget == [template |-> None, n |-> 0, in |-> << >>, pc |-> "idle",
             sat |-> {}, outs |-> {}]

Idle == script.pc \in {"idle", "done", "exit1"}

\* a script is launched: node scripts/<name>.js
Launch(name, pc, inputs) ==
    /\ Idle
    /\ runs < MaxRuns
    /\ runs' = runs + 1
    /\ script' = NewRun(name, pc, inputs)
    /\ audit' = NoAudit
    /\ UNCHANGED <<keyFile, earlier, tasks, gadget, cres, proofFile, publicFile,
                   compositeFile, generated, genCount>>

\* mutant: the throw is swallowed and the function carries on
FailTarget_FallThrough(okPc, failPc) == okPc

\* mutant: the throw is swallowed and main ends normally
FailTarget_Swallow(okPc, failPc) == "done"

\* mutant: the handler calls the failed generation again
FailTarget_Retry(okPc, failPc) == "prove"

\* where control goes when fullProve throws: past the rest of the calling
\* function, to the handler (a catch block, or main().catch and exit)
FailTarget(okPc, failPc) == failPc

\* a decimal string of the input object as the witness calculator takes it:
\* read as an integer and reduced into the field
ToField(x) == x % FieldPrime

\* the input object of a script as signals of the circuit
WitnessInput(c, input) ==
    [priv |-> IF c = "compute_threshold"
              THEN ToField(input.priv)
              ELSE [i \in DOMAIN input.priv |-> ToField(input.priv[i])],
     pub |-> ToField(input.pub)]

\* the effect of `const { proof, publicSignals } = await groth16.fullProve(...)`
\* for circuit c in the running script: on success the locals of the calling
\* function are bound and, when the function returns them at once (bind), so
\* is the caller's variable; on failure it throws and control goes to failPc.
\* okCur is the call that follows a success.
ProveIn(c, input, okPc, okCur, failPc, bind) ==
    LET r == fullProve(c, WitnessInput(c, input), genCount + 1) IN
    /\ IF r.ok
       THEN /\ script' = [script EXCEPT
                              !.res[c] = IF bind THEN r ELSE @,
                              !.pc = okPc, !.cur = okCur,
                              !.log = Append(@, Call("prove", c, <<input>>, TRUE)),
                              !.call = [circuit |-> c, failed |-> FALSE,
                                        proof |-> r.proof,
                                        publicSignals |-> r.publicSignals,
                                        proofBefore |-> proofFile,
                                        publicBefore |-> publicFile]]
            /\ genCount' = genCount + 1
            /\ generated' = generated \cup
                   {[run |-> runs, circuit |-> c, input |-> input,
                     proof |-> r.proof, publicSignals |-> r.publicSignals]}
       ELSE /\ script' = [script EXCEPT
                              !.failed = @ \cup {c},
                              !.error = r.error,
                              !.log = Append(@, Call("prove", c, <<input>>, FALSE)),
                              !.pc = FailTarget(okPc, failPc),
                              !.exitCode = IF failPc = "exit1" THEN 1 ELSE @,
                              !.call = [circuit |-> c, failed |-> TRUE,
                                        proof |-> NoProof,
                                        publicSignals |-> NoSignals,
                                        proofBefore |-> proofFile,
                                        publicBefore |-> publicFile]]
            /\ UNCHANGED <<genCount, generated>>

\* after the last statement of a per-circuit step: next circuit, or lastPc
Advance(loopPc, lastPc) ==
    IF script.cur < Len(Order)
    THEN [script EXCEPT !.cur = @ + 1, !.pc = loopPc]
    ELSE [script EXCEPT !.pc = lastPc]

-----------------------------------------------------------------------------
(* generate-proof.js *)

StartGenerate ==
    /\ \E args \in ArgumentChoices : Launch("generate", "prove", args)
    /\ UNCHANGED <<dataDir, packFiles>>

\* generateProof, line 79: const { proof, publicSignals } = await fullProve;
\* a throw propagates through main() to main().catch, which exits with 1
generateProof_fullProve ==
    /\ script.name = "generate" /\ script.pc = "prove"
    /\ ProveIn(Order[script.cur], script.inputs[Order[script.cur]],
               "writeProof", script.cur, "exit1", FALSE)
    /\ UNCHANGED <<keyFile, dataDir, earlier, tasks, gadget, cres, proofFile, publicFile, compositeFile, packFiles, runs, audit>>

\* generateProof, lines 88-94: data/ is created if it is not there, then
\* fs.writeFileSync(proofPath, proof)
generateProof_writeProof ==
    /\ script.name = "generate" /\ script.pc = "writeProof"
    /\ dataDir' = TRUE
    /\ proofFile' = [proofFile EXCEPT ![Order[script.cur]] = script.call.proof]
    /\ script' = [script EXCEPT !.pc = "writePublic"]
    /\ UNCHANGED <<keyFile, earlier, tasks, gadget, cres, publicFile, compositeFile, packFiles, generated, genCount,
                   runs, audit>>

\* generateProof, line 95: fs.writeFileSync(publicPath, publicSignals); return
generateProof_writePublic ==
    /\ script.name = "generate" /\ script.pc = "writePublic"
    /\ publicFile' = [publicFile EXCEPT ![Order[script.cur]] =
                                            script.call.publicSignals]
    /\ script' = Advance("prove", "done")
    /\ UNCHANGED <<keyFile, dataDir, earlier, tasks, gadget, cres, proofFile, compositeFile, packFiles, generated, genCount,
                   runs, audit>>


-----------------------------------------------------------------------------
(* demo.js *)

\* the fullProveAndPersist calls of main, in order: the three compliant ones
\* and the negative test
DemoCalls == Order \o << "compute_threshold" >>

DemoInput(i) == IF i = 4 THEN NegativeInput ELSE CompliantInputs[DemoCalls[i]]

StartDemo ==
    /\ Launch("demo", "prove", CompliantInputs)
    /\ UNCHANGED <<dataDir, packFiles>>

\* mutant: the key is looked up by the proof's circuit, not by circuitName
verify_ProofsOwnKey(circuitName, proof, publicSignals) ==
    groth16Verify(proof.circuit, publicSignals, proof)

\* mutant: the public signals are read from data/<circuit>_public.json
\* instead of being taken from the argument
verify_PersistedSignals(circuitName, proof, publicSignals) ==
    groth16Verify(keyFile[circuitName], publicFile[circuitName], proof)

\* verify(circuitName, proof, publicSignals): reads the verification key of
\* circuitName and returns groth16.verify(vKey, publicSignals, proof)
verify(circuitName, proof, publicSignals) ==
    groth16Verify(keyFile[circuitName], publicSignals, proof)

\* fullProveAndPersist, line 33; the fourth call sits in try/catch (93-103),
\* a throw of the first three reaches main().catch
fullProveAndPersist_fullProve ==
    /\ script.name = "demo" /\ script.pc = "prove"
    /\ ProveIn(DemoCalls[script.cur], DemoInput(script.cur), "writeProof",
               script.cur, IF script.cur = 4 THEN "done" ELSE "exit1", FALSE)
    /\ UNCHANGED <<keyFile, dataDir, earlier, tasks, gadget, cres, proofFile, publicFile, compositeFile, packFiles, runs, audit>>

\* fullProveAndPersist, lines 36-39
fullProveAndPersist_writeProof ==
    /\ script.name = "demo" /\ script.pc = "writeProof"
    /\ dataDir' = TRUE
    /\ proofFile' = [proofFile EXCEPT ![DemoCalls[script.cur]] = script.call.proof]
    /\ script' = [script EXCEPT !.pc = "writePublic"]
    /\ UNCHANGED <<keyFile, earlier, tasks, gadget, cres, publicFile, compositeFile, packFiles, generated, genCount,
                   runs, audit>>

\* fullProveAndPersist, lines 40-45, and the return to main: the first
\* three results are bound to compute, evals, policy; after the third call
\* main goes on to verify; after the fourth (an unexpected success, its
\* result dropped) it sets exitCode = 1
fullProveAndPersist_writePublic ==
    /\ script.name = "demo" /\ script.pc = "writePublic"
    /\ publicFile' = [publicFile EXCEPT ![DemoCalls[script.cur]] =
                                            script.call.publicSignals]
    /\ LET returned == [ok |-> TRUE, proof |-> script.call.proof,
                        publicSignals |-> script.call.publicSignals,
                        error |-> NoError]
           c == DemoCalls[script.cur] IN
       script' = CASE script.cur < 3 ->
                        [script EXCEPT !.res[c] = returned, !.cur = @ + 1, !.pc = "prove"]
                   [] script.cur = 3 ->
                        [script EXCEPT !.res[c] = returned, !.cur = 1, !.pc = "verify"]
                   [] script.cur = 4 ->
                        [script EXCEPT !.pc = "done", !.exitCode = 1]
    /\ UNCHANGED <<keyFile, dataDir, earlier, tasks, gadget, cres, proofFile, compositeFile, packFiles, generated, genCount,
                   runs, audit>>

\* main, lines 80-82: computeOk, evalsOk, policyOk; then the negative test
demoVerify ==
    /\ script.name = "demo" /\ script.pc = "verify"
    /\ LET c == Order[script.cur]
           ok == verify(c, script.res[c].proof, script.res[c].publicSignals)
           call == Call("verify", c, <<keyFile[c], script.res[c].publicSignals,
                                       script.res[c].proof>>, ok) IN
       script' = IF script.cur < 3
                 THEN [script EXCEPT !.results = @ @@ (c :> ok), !.cur = @ + 1,
                                     !.log = Append(@, call)]
                 ELSE [script EXCEPT !.results = @ @@ (c :> ok), !.cur = 4,
                                     !.pc = "prove", !.log = Append(@, call)]
    /\ UNCHANGED <<keyFile, dataDir, earlier, tasks, gadget, cres, proofFile, publicFile, compositeFile, packFiles, generated,
                   genCount, runs, audit>>

-----------------------------------------------------------------------------
(* composite-proof.js *)

StartComposite ==
    /\ Launch("composite", "prove", CompliantInputs)
    /\ UNCHANGED <<dataDir, packFiles>>

\* generateIndividualProofs, lines 39/46/53 through generateProof, line 69:
\* three awaits in sequence, nothing caught before main().catch
generateIndividualProofs ==
    /\ script.name = "composite" /\ script.pc = "prove"
    /\ ProveIn(Order[script.cur], script.inputs[Order[script.cur]],
               IF script.cur < 3 THEN "prove" ELSE "compose",
               IF script.cur < 3 THEN script.cur + 1 ELSE script.cur, "exit1", TRUE)
    /\ UNCHANGED <<keyFile, dataDir, earlier, tasks, gadget, cres, proofFile, publicFile, compositeFile, packFiles, runs, audit>>

\* mutant: the policy slot is filled from proofs.evaluation
CompositeOf_Misfiled(proofs, timestamp) ==
    [version |-> "1.0",
     timestamp |-> timestamp,
     proofs |-> [c \in Circuits |->
        [proof |-> IF c = "policy_compliance"
                   THEN proofs["evaluation_attestation"].proof ELSE proofs[c].proof,
         publicSignals |-> IF c = "policy_compliance"
                           THEN proofs["evaluation_attestation"].publicSignals
                           ELSE proofs[c].publicSignals,
         claim |-> c]],
     metadata |-> [submitter |-> "AI Lab Example Inc.",
                   framework |-> "EU AI Act + RSP",
                   compositionMethod |-> "bundled_verification"]]

\* the compositeProof object of composeProofs, lines 86-111; proofs maps each
\* circuit to its {proof, publicSignals}; timestamp is the time of the run
CompositeOf(proofs, timestamp) ==
    [version |-> "1.0",
     timestamp |-> timestamp,
     proofs |-> [c \in Circuits |->
        [proof |-> proofs[c].proof,
         publicSignals |-> proofs[c].publicSignals,
         claim |-> CASE c = "compute_threshold" ->
                          "Training compute below regulatory threshold"
                     [] c = "evaluation_attestation" ->
                          "All required safety evaluations completed"
                     [] c = "policy_compliance" ->
                          "Responsible Scaling Policy requirements met"]],
     metadata |-> [submitter |-> "AI Lab Example Inc.",
                   framework |-> "EU AI Act + RSP",
                   compositionMethod |-> "bundled_verification"]]

\* composeProofs: builds the object, writes composite_proof.json, returns it
composeProofs ==
    /\ script.name = "composite" /\ script.pc = "compose"
    /\ dataDir' = TRUE
    /\ compositeFile' = CompositeOf(script.res, runs)
    /\ script' = [script EXCEPT !.composite = CompositeOf(script.res, runs),
                                !.pc = "verifyComposite"]
    /\ UNCHANGED <<keyFile, earlier, tasks, gadget, cres, proofFile, publicFile, packFiles, generated, genCount,
                   runs, audit>>

\* mutant: a member is accepted only in a composite of version 1.0 that
\* carries the label composeProofs gave the member
verifyMember_ChecksLabels(compositeProof, circuit) ==
    Call("verify", circuit,
         <<keyFile[circuit], compositeProof.proofs[circuit].publicSignals,
           compositeProof.proofs[circuit].proof>>,
         /\ compositeProof.version = "1.0"
         /\ compositeProof.proofs[circuit].claim =
                CompositeOf([c \in Circuits |-> NoResult], 0).proofs[circuit].claim
         /\ groth16Verify(keyFile[circuit],
                          compositeProof.proofs[circuit].publicSignals,
                          compositeProof.proofs[circuit].proof))

\* verifyCompositeProof, lines 143-147: one pass of the loop body for
\* `circuit`: its verification key is read and groth16.verify is called on
\* the member stored under its name
verifyMember(compositeProof, circuit) ==
    Call("verify", circuit,
         <<keyFile[circuit], compositeProof.proofs[circuit].publicSignals,
           compositeProof.proofs[circuit].proof>>,
         groth16Verify(keyFile[circuit],
                       compositeProof.proofs[circuit].publicSignals,
                       compositeProof.proofs[circuit].proof))

\* mutant: the loop ends at the first member that does not verify
RECURSIVE verifyCompositeLoop_ShortCircuit(_, _)
verifyCompositeLoop_ShortCircuit(compositeProof, i) ==
    IF i = 0 THEN << >>
    ELSE LET before == verifyCompositeLoop_ShortCircuit(compositeProof, i - 1) IN
         IF before # << >> /\ ~before[Len(before)].ok
         THEN before
         ELSE Append(before, verifyMember(compositeProof, Order[i]))

\* verifyCompositeProof, lines 139-153: the calls of groth16.verify made by
\* the first i passes of  for (const circuit of circuits)
RECURSIVE verifyCompositeLoop(_, _)
verifyCompositeLoop(compositeProof, i) ==
    IF i = 0 THEN << >>
    ELSE Append(verifyCompositeLoop(compositeProof, i - 1),
                verifyMember(compositeProof, Order[i]))

\* results[circuit] = isValid, for the circuits the loop reached
ResultsOf(calls) ==
    [circuit \in {calls[i].circuit : i \in 1 .. Len(calls)} |->
        \A i \in 1 .. Len(calls) : calls[i].circuit = circuit => calls[i].ok]

\* verifyCompositeProof, lines 136-156: the results object it returns
verifyCompositeProof(compositeProof) ==
    ResultsOf(verifyCompositeLoop(compositeProof, Len(Order)))

\* mutant: some instead of every
allValid_Some(results) == \E c \in DOMAIN results : results[c]

\* Object.values(results).every(v => v)
allValid(results) == \A c \in DOMAIN results : results[c]

\* mutant: the verified bundle is marked and saved back to composite_proof.json
compositeVerify_SavesVerdict ==
    /\ script.name = "composite" /\ script.pc = "verifyComposite"
    /\ script' = [script EXCEPT
                     !.results = verifyCompositeProof(script.composite),
                     !.allValid = allValid(verifyCompositeProof(script.composite)),
                     !.composite = [@ EXCEPT !.version = "1.0-verified"],
                     !.log = @ \o verifyCompositeLoop(script.composite, Len(Order)),
                     !.pc = "done"]
    /\ compositeFile' = [script.composite EXCEPT !.version = "1.0-verified"]
    /\ UNCHANGED <<keyFile, dataDir, earlier, tasks, gadget, cres, proofFile,
                   publicFile, packFiles, generated, genCount, runs, audit>>

\* main, lines 201-216
compositeVerify ==
    /\ script.name = "composite" /\ script.pc = "verifyComposite"
    /\ script' = [script EXCEPT
                     !.results = verifyCompositeProof(script.composite),
                     !.allValid = allValid(verifyCompositeProof(script.composite)),
                     !.log = @ \o verifyCompositeLoop(script.composite, Len(Order)),
                     !.pc = "done"]
    /\ UNCHANGED <<keyFile, dataDir, earlier, tasks, gadget, cres, proofFile, publicFile, compositeFile, packFiles, generated,
                   genCount, runs, audit>>


-----------------------------------------------------------------------------
(* verify-proof script (second script of composite-proof.js, lines 230-363) *)

StartVerifyProof ==
    /\ Launch("verify", "verify", CompliantInputs)
    /\ UNCHANGED <<dataDir, packFiles>>

\* verifyProof reads the key, the proof file and the public-signals file;
\* readFileSync throws when a file is absent
verifyProofThrows(circuitName) ==
    proofFile[circuitName] = NoProof \/ publicFile[circuitName] = NoSignals

\* verifyProof, lines 260-278
verifyProof(circuitName) ==
    groth16Verify(keyFile[circuitName], publicFile[circuitName],
                  proofFile[circuitName])

\* mutant: no try / catch around verifyProof; a throw ends the script
verifyProofMain_Uncaught ==
    /\ script.name = "verify" /\ script.pc = "verify"
    /\ LET c == Order[script.cur]
           r == verifyProof(c)
           results == script.results @@ (c :> r)
           call == Call("verify", c, <<keyFile[c], publicFile[c], proofFile[c]>>, r) IN
       script' = IF verifyProofThrows(c)
                 THEN [script EXCEPT !.pc = "exit1", !.exitCode = 1]
                 ELSE IF script.cur < 3
                 THEN [script EXCEPT !.results = results, !.cur = @ + 1,
                                     !.log = Append(@, call)]
                 ELSE [script EXCEPT !.results = results,
                                     !.allValid = allValid(results), !.pc = "done",
                                     !.log = Append(@, call)]
    /\ UNCHANGED <<keyFile, dataDir, earlier, tasks, gadget, cres, proofFile, publicFile, compositeFile, packFiles, generated,
                   genCount, runs, audit>>

\* main, lines 348-357: try { results[c] = await verifyProof(c) } catch
\* { results[c] = false }; after the loop interpretResults computes allValid
verifyProofMain ==
    /\ script.name = "verify" /\ script.pc = "verify"
    /\ LET c == Order[script.cur]
           r == IF verifyProofThrows(c) THEN FALSE ELSE verifyProof(c)
           results == script.results @@ (c :> r)
           call == Call("verify", c, <<keyFile[c], publicFile[c], proofFile[c]>>, r) IN
       script' = IF script.cur < 3
                 THEN [script EXCEPT !.results = results, !.cur = @ + 1,
                                     !.log = Append(@, call)]
                 ELSE [script EXCEPT !.results = results,
                                     !.allValid = allValid(results), !.pc = "done",
                                     !.log = Append(@, call)]
    /\ UNCHANGED <<keyFile, dataDir, earlier, tasks, gadget, cres, proofFile, publicFile, compositeFile, packFiles, generated,
                   genCount, runs, audit>>

-----------------------------------------------------------------------------
(* run-policy-pack.js *)

\* main, lines 56-60: the pack is read and ensureDir(outDir) creates the
\* directory data/policy_packs/<id>_<stamp> of this run, and data/ with it
StartPolicyPack ==
    /\ \E pack \in PolicyPacks : Launch("pack", "prove", pack)
    /\ dataDir' = TRUE
    /\ packFiles' = packFiles @@ (runs' :> NoPackDir)

\* main, lines 66-85: computeInput, evalInput, policyInput take the pack's
\* example private input and public value of their circuit
PackInput(c, pack) == [priv |-> pack[c].priv, pub |-> pack[c].pub]

\* mutant: artifacts.json is written once the second proof is there
prove_ArtifactsEarly ==
    /\ script.name = "pack" /\ script.pc = "prove"
    /\ ProveIn(Order[script.cur], PackInput(Order[script.cur], script.inputs),
               IF script.cur < 2 THEN "prove" ELSE "artifacts",
               IF script.cur < 2 THEN script.cur + 1 ELSE script.cur, "exit1", TRUE)
    /\ UNCHANGED <<keyFile, dataDir, earlier, tasks, gadget, cres, proofFile, publicFile, compositeFile, packFiles, runs, audit>>

\* main, lines 70/78/86 through prove, line 42
prove ==
    /\ script.name = "pack" /\ script.pc = "prove"
    /\ ProveIn(Order[script.cur], PackInput(Order[script.cur], script.inputs),
               IF script.cur < 3 THEN "prove" ELSE "artifacts",
               IF script.cur < 3 THEN script.cur + 1 ELSE script.cur, "exit1", TRUE)
    /\ UNCHANGED <<keyFile, dataDir, earlier, tasks, gadget, cres, proofFile, publicFile, compositeFile, packFiles, runs, audit>>

\* mutant: the label is built from the example private input
PackClaim_PrivateValue(c, pack) ==
    CASE c = "compute_threshold" -> << "privateCompute < threshold", pack[c].priv >>
      [] c = "evaluation_attestation" ->
            << "sum(evaluationFlags) >= requiredCount", pack[c].priv >>
      [] c = "policy_compliance" -> << "sum(policyItems) >= minRequired", pack[c].priv >>

\* the claim label of a member: its text and the pack's public value in it
PackClaim(c, pack) ==
    CASE c = "compute_threshold" -> << "privateCompute < threshold", pack[c].pub >>
      [] c = "evaluation_attestation" ->
            << "sum(evaluationFlags) >= requiredCount", pack[c].pub >>
      [] c = "policy_compliance" -> << "sum(policyItems) >= minRequired", pack[c].pub >>

\* the artifacts object, lines 89-115
ArtifactsOf(res, pack, timestamp) ==
    [generated_at |-> timestamp,
     proofs |-> [c \in Circuits |->
                    [proof |-> res[c].proof, publicSignals |-> res[c].publicSignals,
                     claim |-> PackClaim(c, pack)]]]

\* mutant: the directory name has no stamp, every run writes the same one
writeArtifacts_SharedDir ==
    /\ script.name = "pack" /\ script.pc = "artifacts"
    /\ packFiles' = [s \in DOMAIN packFiles |->
                        [packFiles[s] EXCEPT
                            !.artifacts = ArtifactsOf(script.res, script.inputs, runs)]]
    /\ script' = [script EXCEPT !.pc = "report"]
    /\ UNCHANGED <<keyFile, dataDir, earlier, tasks, gadget, cres, proofFile,
                   publicFile, compositeFile, generated, genCount, runs, audit>>

\* main, line 117: artifacts.json is written into the directory of the run
writeArtifacts ==
    /\ script.name = "pack" /\ script.pc = "artifacts"
    /\ packFiles' = [packFiles EXCEPT
                        ![runs].artifacts = ArtifactsOf(script.res, script.inputs, runs)]
    /\ script' = [script EXCEPT !.pc = "report"]
    /\ UNCHANGED <<keyFile, dataDir, earlier, tasks, gadget, cres, proofFile,
                   publicFile, compositeFile, generated, genCount, runs, audit>>

\* main, lines 120-154: report.md with the claims and the public signals
writeReport ==
    /\ script.name = "pack" /\ script.pc = "report"
    /\ packFiles' = [packFiles EXCEPT ![runs].report =
          [generated_at |-> packFiles[runs].artifacts.generated_at,
           claims |-> [c \in Circuits |-> packFiles[runs].artifacts.proofs[c].claim],
           publicSignals |-> [c \in Circuits |-> script.res[c].publicSignals]]]
    /\ script' = [script EXCEPT !.pc = "done"]
    /\ UNCHANGED <<keyFile, dataDir, earlier, tasks, gadget, cres, proofFile,
                   publicFile, compositeFile, generated, genCount, runs, audit>>

-----------------------------------------------------------------------------
(* A verifier's own calls of verify and verifyCompositeProof, on what it   *)
(* received: genuine results, or results altered on the way.               *)

\* a proof with a byte flipped
Tampered(proof) == [proof EXCEPT !.intact = FALSE]

\* verify(key, proof, publicSignals) on any key, the public signals of one
\* generation and the proof of one generation, the proof possibly tampered
AuditVerify ==
    /\ Idle /\ audit = NoAudit
    /\ \E key \in Circuits, gs \in generated, gp \in generated, flip \in BOOLEAN :
          LET proof == IF flip THEN Tampered(gp.proof) ELSE gp.proof IN
          audit' = [NoAudit EXCEPT !.kind = "verify", !.key = key,
                       !.publicSignals = gs.publicSignals, !.proof = proof,
                       !.sigFrom = gs.proof.id, !.proofFrom = gp.proof.id,
                       !.verdict = verify(key, proof, gs.publicSignals)]
    /\ UNCHANGED <<keyFile, dataDir, earlier, tasks, gadget, cres, proofFile, publicFile, compositeFile, packFiles, script,
                   generated, genCount, runs>>

\* what may arrive in place of a composite: the composite itself, or one
\* member's proof tampered, or one member's proof or public signals replaced
\* by those of some generation
Received(composite) ==
    {composite} \cup
    { [composite EXCEPT !.proofs[c].proof = Tampered(@)] : c \in Circuits } \cup
    { [composite EXCEPT !.proofs[c].proof = g.proof] :
          c \in Circuits, g \in generated } \cup
    { [composite EXCEPT !.proofs[c].publicSignals = g.publicSignals] :
          c \in Circuits, g \in generated }

\* verifyCompositeProof and the allValid test of main on a received composite
AuditComposite ==
    /\ Idle /\ audit = NoAudit
    /\ compositeFile # NoComposite
    /\ \E artifact \in Received(compositeFile) :
          audit' = [NoAudit EXCEPT !.kind = "composite", !.artifact = artifact,
                       !.calls = verifyCompositeLoop(artifact, Len(Order)),
                       !.results = verifyCompositeProof(artifact),
                       !.verdict = allValid(verifyCompositeProof(artifact))]
    /\ UNCHANGED <<keyFile, dataDir, earlier, tasks, gadget, cres, proofFile, publicFile, compositeFile, packFiles, script,
                   generated, genCount, runs>>

\* a composite with the fields beside proof and publicSignals rewritten:
\* version, timestamp, metadata, a member's claim, or all of them
Relabelled(composite) ==
    LET version == [composite EXCEPT !.version = "2.0"]
        timestamp == [composite EXCEPT !.timestamp = 0]
        metadata == [composite EXCEPT
                        !.metadata = [submitter |-> "Another Lab",
                                      framework |-> "none",
                                      compositionMethod |-> "recursive"]]
        claim == [composite EXCEPT
                     !.proofs["compute_threshold"].claim =
                         composite.proofs["policy_compliance"].claim] IN
    { version, timestamp, metadata, claim,
      [claim EXCEPT !.version = version.version,
                    !.timestamp = timestamp.timestamp,
                    !.metadata = metadata.metadata] }

\* verifyCompositeProof and the allValid test of main on a received
\* composite, and again on the same composite with its other fields rewritten
AuditRelabelled ==
    /\ Idle /\ audit = NoAudit
    /\ compositeFile # NoComposite
    /\ \E artifact \in Received(compositeFile) :
          \E other \in Relabelled(artifact) :
              audit' = [NoAudit EXCEPT
                           !.kind = "relabelled", !.artifact = artifact,
                           !.calls = verifyCompositeLoop(artifact, Len(Order)),
                           !.results = verifyCompositeProof(artifact),
                           !.verdict = allValid(verifyCompositeProof(artifact)),
                           !.other = other,
                           !.otherResults = verifyCompositeProof(other),
                           !.otherVerdict = allValid(verifyCompositeProof(other))]
    /\ UNCHANGED <<keyFile, dataDir, earlier, tasks, gadget, cres, proofFile,
                   publicFile, compositeFile, packFiles, script, generated,
                   genCount, runs>>

\* a composite with the entries of some of the three circuits left out
Incomplete(composite) ==
    { [composite EXCEPT !.proofs = [c \in D |-> composite.proofs[c]]] :
          D \in (SUBSET Circuits) \ {Circuits} }

\* the position in the loop of verifyCompositeProof of the first circuit
\* with no entry in compositeProof.proofs, 0 if every circuit has one
FirstMissing(compositeProof) ==
    LET missing == { i \in 1 .. Len(Order) :
                        Order[i] \notin DOMAIN compositeProof.proofs } IN
    IF missing = {} THEN 0 ELSE CHOOSE i \in missing : \A j \in missing : i <= j

\* mutant: a circuit with no entry is passed over
verifyCompositeThrows_PassesOver(compositeProof) == FALSE

\* verifyCompositeProof, lines 145-146: proofData is undefined for a circuit
\* with no entry and proofData.publicSignals throws
verifyCompositeThrows(compositeProof) == FirstMissing(compositeProof) # 0

\* main of composite-proof.js from line 203 on a composite that arrived with
\* entries missing, or whole: verifyCompositeProof, the allValid test, and
\* main().catch with process.exit(1) when verifyCompositeProof threw
AuditIncomplete ==
    /\ Idle /\ audit = NoAudit
    /\ compositeFile # NoComposite
    /\ \E artifact \in Incomplete(compositeFile) \cup {compositeFile} :
          IF verifyCompositeThrows(artifact)
          THEN audit' = [NoAudit EXCEPT
                            !.kind = "received", !.artifact = artifact,
                            !.calls = verifyCompositeLoop(
                                          artifact, FirstMissing(artifact) - 1),
                            !.exitCode = 1]
          ELSE LET present == SelectSeq(Order, LAMBDA c :
                                         c \in DOMAIN artifact.proofs)
                   calls == [i \in 1 .. Len(present) |->
                                verifyMember(artifact, present[i])] IN
               audit' = [NoAudit EXCEPT
                            !.kind = "received", !.artifact = artifact,
                            !.calls = calls,
                            !.results = ResultsOf(calls),
                            !.verdict = allValid(ResultsOf(calls))]
    /\ UNCHANGED <<keyFile, dataDir, earlier, tasks, gadget, cres, proofFile,
                   publicFile, compositeFile, packFiles, script, generated,
                   genCount, runs>>

\* the verifier's first call of verify, as AuditVerify, with the triple and
\* the boolean it returned kept for later
RememberVerify ==
    /\ Idle /\ audit = NoAudit /\ earlier = NoEarlier
    /\ \E key \in Circuits, gs \in generated, gp \in generated, flip \in BOOLEAN :
          LET proof == IF flip THEN Tampered(gp.proof) ELSE gp.proof IN
          /\ audit' = [NoAudit EXCEPT !.kind = "verify", !.key = key,
                          !.publicSignals = gs.publicSignals, !.proof = proof,
                          !.sigFrom = gs.proof.id, !.proofFrom = gp.proof.id,
                          !.verdict = verify(key, proof, gs.publicSignals)]
          /\ earlier' = [key |-> key, publicSignals |-> gs.publicSignals,
                         proof |-> proof,
                         verdict |-> verify(key, proof, gs.publicSignals)]
    /\ UNCHANGED <<keyFile, dataDir, tasks, gadget, cres, proofFile, publicFile,
                   compositeFile, packFiles, script, generated, genCount, runs>>

\* verify called again with the triple kept from the earlier call
AuditReverify ==
    /\ Idle /\ audit = NoAudit /\ earlier # NoEarlier
    /\ audit' = [NoAudit EXCEPT !.kind = "reverify", !.key = earlier.key,
                    !.publicSignals = earlier.publicSignals,
                    !.proof = earlier.proof,
                    !.verdict = verify(earlier.key, earlier.proof,
                                       earlier.publicSignals)]
    /\ UNCHANGED <<keyFile, dataDir, earlier, tasks, gadget, cres, proofFile,
                   publicFile, compositeFile, packFiles, script, generated,
                   genCount, runs>>

-----------------------------------------------------------------------------
(* generateProof of generate-proof.js called for the three circuits side by *)
(* side in one Node process.  A call runs up to its await; the part after   *)
(* the await is synchronous and runs to its end before any other call is    *)
(* resumed.                                                                 *)

\* mutant: every call writes to the files of compute_threshold
proofPath_Shared(circuitName) == "compute_threshold"

\* proofPath / publicPath: data/<circuitName>_proof.json, _public.json
proofPath(circuitName) == circuitName

\* the call is between two of the synchronous fs calls after the await
Running(c) == tasks[c].pc \in {"mkdirSync", "writeProof", "writePublic"}

\* the event loop may run a step of the call for c
MayRun(c) == \A d \in Circuits \ {c} : ~Running(d)

\* mkdirSync of a directory that exists
EEXIST == Site(None, <<"EEXIST: file already exists, mkdir">>)

\* lines 74-79: the paths, then groth16.fullProve is called and awaited
task_call ==
    \E c \in Circuits :
        /\ tasks[c].pc = "start" /\ MayRun(c)
        /\ tasks' = [tasks EXCEPT ![c].pc = "fullProve"]
        /\ UNCHANGED <<keyFile, dataDir, earlier, gadget, cres, proofFile,
                       publicFile, compositeFile, packFiles, script, generated,
                       genCount, runs, audit>>

\* line 79: fullProve settles; a rejection ends the call, a result is
\* destructured and line 90 tests fs.existsSync(dataDir)
task_fullProve ==
    \E c \in Circuits :
        /\ tasks[c].pc = "fullProve" /\ MayRun(c)
        /\ LET r == fullProve(c, tasks[c].input, genCount + 1) IN
           IF r.ok
           THEN /\ tasks' = [tasks EXCEPT
                                ![c].proof = r.proof,
                                ![c].publicSignals = r.publicSignals,
                                ![c].pc = IF dataDir THEN "writeProof"
                                                     ELSE "mkdirSync"]
                /\ genCount' = genCount + 1
           ELSE /\ tasks' = [tasks EXCEPT ![c].pc = "rejected",
                                          ![c].error = r.error]
                /\ UNCHANGED genCount
        /\ UNCHANGED <<keyFile, dataDir, earlier, gadget, cres, proofFile,
                       publicFile, compositeFile, packFiles, script, generated,
                       runs, audit>>

\* line 91: fs.mkdirSync(dataDir), which throws if the directory exists
task_mkdirSync ==
    \E c \in Circuits :
        /\ tasks[c].pc = "mkdirSync" /\ MayRun(c)
        /\ IF dataDir
           THEN /\ tasks' = [tasks EXCEPT ![c].pc = "rejected",
                                          ![c].error = EEXIST]
                /\ UNCHANGED dataDir
           ELSE /\ tasks' = [tasks EXCEPT ![c].pc = "writeProof"]
                /\ dataDir' = TRUE
        /\ UNCHANGED <<keyFile, earlier, gadget, cres, proofFile, publicFile,
                       compositeFile, packFiles, script, generated, genCount,
                       runs, audit>>

\* line 94: fs.writeFileSync(proofPath, proof)
task_writeProof ==
    \E c \in Circuits :
        /\ tasks[c].pc = "writeProof" /\ MayRun(c)
        /\ proofFile' = [proofFile EXCEPT ![proofPath(c)] = tasks[c].proof]
        /\ tasks' = [tasks EXCEPT ![c].pc = "writePublic"]
        /\ UNCHANGED <<keyFile, dataDir, earlier, gadget, cres, publicFile,
                       compositeFile, packFiles, script, generated, genCount,
                       runs, audit>>

\* lines 95-99: fs.writeFileSync(publicPath, publicSignals), then the pair
\* is returned
task_writePublic ==
    \E c \in Circuits :
        /\ tasks[c].pc = "writePublic" /\ MayRun(c)
        /\ publicFile' = [publicFile EXCEPT ![proofPath(c)] =
                                                tasks[c].publicSignals]
        /\ tasks' = [tasks EXCEPT ![c].pc = "returned"]
        /\ UNCHANGED <<keyFile, dataDir, earlier, gadget, cres, proofFile,
                       compositeFile, packFiles, script, generated, genCount,
                       runs, audit>>

-----------------------------------------------------------------------------
(* Template harness: one instance of LessThan(n) or Num2Bits(n) with its    *)
(* input signals fixed, and the assignments of its free signals that        *)
(* satisfy its constraints.                                                 *)

\* assert(n <= 252) of LessThan; 252 is the width ComputeThreshold uses
MaxComparatorBits == ThresholdBits

\* values tried for a bit signal: the roots of x * (x - 1) and others
BitCandidates == BoolRoots \cup BadFlagValues

\* LessThan(n) with in[0], in[1] given: the assert, then the constraints on
\* n2b.out; out is fixed by out <== 1 - n2b.out[n]
LessThanInstance ==
    /\ gadget.template = "LessThan" /\ gadget.pc = "ready"
    /\ IF gadget.n > MaxComparatorBits
       THEN gadget' = [gadget EXCEPT !.pc = "rejected"]
       ELSE LET sat == { bits \in [0 .. gadget.n -> BitCandidates] :
                            LessThan(gadget.in[1], gadget.in[2], bits, gadget.n) } IN
            gadget' = [gadget EXCEPT
                          !.pc = "done", !.sat = sat,
                          !.outs = { LessThanOut(bits, gadget.n) : bits \in sat }]
    /\ UNCHANGED <<keyFile, dataDir, earlier, tasks, cres, proofFile, publicFile,
                   compositeFile, packFiles, script, generated, genCount, runs,
                   audit>>

\* GreaterEqThan(n) with in[0], in[1] given: the assert of its LessThan, then
\* the constraints on lt.n2b.out; out is fixed by out <== 1 - lt.out
GreaterEqThanInstance ==
    /\ gadget.template = "GreaterEqThan" /\ gadget.pc = "ready"
    /\ IF gadget.n > MaxComparatorBits
       THEN gadget' = [gadget EXCEPT !.pc = "rejected"]
       ELSE LET sat == { bits \in [0 .. gadget.n -> BitCandidates] :
                            GreaterEqThan(gadget.in[1], gadget.in[2], bits,
                                          gadget.n) } IN
            gadget' = [gadget EXCEPT
                          !.pc = "done", !.sat = sat,
                          !.outs = { GreaterEqThanOut(bits, gadget.n) : bits \in sat }]
    /\ UNCHANGED <<keyFile, dataDir, earlier, tasks, cres, proofFile, publicFile,
                   compositeFile, packFiles, script, generated, genCount, runs,
                   audit>>

\* Num2Bits(n) with in given: the constraints on out
Num2BitsInstance ==
    /\ gadget.template = "Num2Bits" /\ gadget.pc = "ready"
    /\ gadget' = [gadget EXCEPT
                      !.pc = "done",
                      !.sat = { out \in [0 .. (gadget.n - 1) -> BitCandidates] :
                                   Num2Bits(gadget.in[1], out, gadget.n) }]
    /\ UNCHANGED <<keyFile, dataDir, earlier, tasks, cres, proofFile, publicFile,
                   compositeFile, packFiles, script, generated, genCount, runs,
                   audit>>

-----------------------------------------------------------------------------
(* Specifications *)

InitScripts ==
    /\ proofFile = [c \in Circuits |-> NoProof]
    /\ publicFile = [c \in Circuits |-> NoSignals]
    /\ compositeFile = NoComposite
    /\ packFiles = [s \in {} |-> NoPackDir]
    /\ script = NoScript
    /\ generated = {}
    /\ genCount = 0
    /\ runs = 0
    /\ audit = NoAudit
    /\ keyFile = [c \in Circuits |-> c]
    /\ earlier = NoEarlier

InitLife ==
    /\ InitScripts
    /\ dataDir = FALSE
    /\ tasks = NoTasks
    /\ gadget = NoGadget

\* the circuit harness at rest
NoCall == [circuit |-> None, input |-> [priv |-> 0, pub |-> 0], called |-> FALSE,
           ok |-> FALSE, proof |-> NoProof, publicSignals |-> NoSignals]

Init == cres = NoCall /\ InitLife

Next ==
    \/ StartGenerate
    \/ generateProof_fullProve
    \/ generateProof_writeProof
    \/ generateProof_writePublic
    \/ StartDemo
    \/ fullProveAndPersist_fullProve
    \/ fullProveAndPersist_writeProof
    \/ fullProveAndPersist_writePublic
    \/ demoVerify
    \/ StartComposite
    \/ generateIndividualProofs
    \/ composeProofs
    \/ compositeVerify
    \/ StartVerifyProof
    \/ verifyProofMain
    \/ StartPolicyPack
    \/ prove
    \/ writeArtifacts
    \/ writeReport
    \/ AuditVerify
    \/ AuditComposite
    \/ AuditIncomplete
    \/ AuditRelabelled

Spec == Init /\ [][Next]_vars

InitCircuit ==
    /\ \E call \in CircuitInputs :
          cres = [circuit |-> call.circuit, input |-> call.input,
                  called |-> FALSE, ok |-> FALSE, proof |-> NoProof,
                  publicSignals |-> NoSignals]
    /\ InitLife

NextCircuit ==
    \/ ProveComputeThreshold
    \/ ProveEvaluationAttestation
    \/ ProvePolicyCompliance

SpecCircuit == InitCircuit /\ [][NextCircuit]_vars

\* a verifier that keeps one call and repeats it, with the scripts that
\* generate, persist and verify running in between
NextVerify ==
    \/ StartGenerate
    \/ generateProof_fullProve
    \/ generateProof_writeProof
    \/ generateProof_writePublic
    \/ StartDemo
    \/ fullProveAndPersist_fullProve
    \/ fullProveAndPersist_writeProof
    \/ fullProveAndPersist_writePublic
    \/ demoVerify
    \/ StartComposite
    \/ generateIndividualProofs
    \/ composeProofs
    \/ compositeVerify
    \/ StartVerifyProof
    \/ verifyProofMain
    \/ RememberVerify
    \/ AuditReverify

SpecVerify == Init /\ [][NextVerify]_vars

\* the three calls are made with arguments of ArgumentChoices; data/ exists
\* or not
InitConcurrent ==
    /\ cres = NoCall
    /\ InitScripts
    /\ dataDir \in BOOLEAN
    /\ \E inputs \in ArgumentChoices :
          tasks = [c \in Circuits |-> [NoTasks[c] EXCEPT !.pc = "start",
                                                         !.input = inputs[c]]]
    /\ gadget = NoGadget

NextConcurrent ==
    \/ task_call
    \/ task_fullProve
    \/ task_mkdirSync
    \/ task_writeProof
    \/ task_writePublic

SpecConcurrent == InitConcurrent /\ [][NextConcurrent]_vars

\* the largest flag count and public minimum the aggregation comparator's
\* width holds: 255 for GreaterEqThan(8)
MaxFlagCount == Pow2(AggBits) - 1

\* LessThan(n) up to one width past its assert, on inputs below 2^n;
\* Num2Bits(n) on every field value, up to the first width with 2^n above
\* the field prime; GreaterEqThan at the width of the aggregation circuits,
\* on every number of set flags of a flag array of at most MaxFlagCount
\* entries and every public minimum up to MaxFlagCount
GadgetInstances ==
    UNION { { [NoGadget EXCEPT !.template = "LessThan", !.n = n,
                               !.in = <<a, b>>, !.pc = "ready"] :
                  a \in 0 .. (Pow2(n) - 1), b \in 0 .. (Pow2(n) - 1) } :
            n \in 1 .. (MaxComparatorBits + 1) } \cup
    { [NoGadget EXCEPT !.template = "Num2Bits", !.n = n, !.in = <<x>>,
                       !.pc = "ready"] :
          n \in 1 .. (MaxComparatorBits + 2), x \in Field } \cup
    { [NoGadget EXCEPT !.template = "GreaterEqThan", !.n = AggBits,
                       !.in = <<sum, k>>, !.pc = "ready"] :
          sum \in 0 .. MaxFlagCount, k \in 0 .. MaxFlagCount }

InitGadget ==
    /\ cres = NoCall
    /\ InitScripts
    /\ dataDir = FALSE
    /\ tasks = NoTasks
    /\ gadget \in GadgetInstances

NextGadget ==
    \/ LessThanInstance
    \/ GreaterEqThanInstance
    \/ Num2BitsInstance

SpecGadget == InitGadget /\ [][NextGadget]_vars

-----------------------------------------------------------------------------
(* Circuit properties, checked under SpecCircuit *)

\* the number of the entries of a flag array that are 1, as an integer
RECURSIVE IntSum(_, _)
IntSum(flags, n) ==
    IF n = 0 THEN 0 ELSE IntSum(flags, n - 1) + flags[n - 1]

FlagCount(circuit) == IF circuit = "evaluation_attestation" THEN EvalN ELSE PolicyN

IsThresholdCall == cres.called /\ cres.circuit = "compute_threshold"

IsAggCall ==
    cres.called /\ cres.circuit \in {"evaluation_attestation", "policy_compliance"}

AllBoolean(flags, n) == \A i \in 0 .. (n - 1) : flags[i] \in {0, 1}

\* C1 (as claimed): for every v and T of the whole field, if v < T is false
\* as integers then the threshold circuit has no satisfying witness and
\* generation fails.
C1_ThresholdSoundWholeField ==
    (IsThresholdCall /\ ~(cres.input.priv < cres.input.pub))
        => (~cres.ok /\ ~Satisfiable(cres.circuit, cres.input))

\* C2 (as claimed): for every flag array and every k of the whole field, if
\* a flag is outside {0,1} or the integer sum of the flags is below k, the
\* aggregation circuit has no satisfying witness and generation fails.
C2_AggregationSoundWholeField ==
    (IsAggCall /\ (\/ ~AllBoolean(cres.input.priv, FlagCount(cres.circuit))
                   \/ IntSum(cres.input.priv, FlagCount(cres.circuit)) < cres.input.pub))
        => (~cres.ok /\ ~Satisfiable(cres.circuit, cres.input))

\* C3: for 0 <= v < T < 2^ThresholdBits the threshold circuit has a
\* satisfying witness, generation succeeds, and the returned proof and
\* public signals verify under the compute_threshold key.
C3_ThresholdComplete ==
    (IsThresholdCall /\ cres.input.priv < cres.input.pub
                     /\ cres.input.pub < Pow2(ThresholdBits))
        => /\ Satisfiable(cres.circuit, cres.input)
           /\ cres.ok
           /\ groth16Verify("compute_threshold", cres.publicSignals, cres.proof)

C3_Witness ==
    /\ IsThresholdCall
    /\ cres.input.pub = Pow2(ThresholdBits) - 1
    /\ cres.input.priv = cres.input.pub - 1
    /\ cres.ok
    /\ groth16Verify("compute_threshold", cres.publicSignals, cres.proof)

\* C4: for N = 5 and N = 8, every 0/1 flag array and every k with
\* 0 <= k <= sum(flags), whether k < N or k = N, the one aggregation circuit
\* has a satisfying witness and generation succeeds.
C4_AggregationComplete ==
    (IsAggCall /\ AllBoolean(cres.input.priv, FlagCount(cres.circuit))
               /\ cres.input.pub <= IntSum(cres.input.priv, FlagCount(cres.circuit)))
        => (Satisfiable(cres.circuit, cres.input) /\ cres.ok)

\* a partial-credit call (k < N, one flag unset) that succeeded
C4_Witness ==
    /\ IsAggCall
    /\ cres.circuit = "policy_compliance"
    /\ AllBoolean(cres.input.priv, PolicyN)
    /\ IntSum(cres.input.priv, PolicyN) = PolicyN - 1
    /\ cres.input.pub = PolicyN - 1
    /\ cres.ok

-----------------------------------------------------------------------------
(* Lifecycle properties, checked under Spec *)

MemberVerifies(composite, c) ==
    verify(c, composite.proofs[c].proof, composite.proofs[c].publicSignals)

\* C6: the overall verdict on a composite is true if and only if every
\* member verifies under the key of its own circuit; a composite with a
\* tampered member yields false.
C6_CompositeAtomicity ==
    /\ audit.kind = "composite" =>
          /\ audit.verdict <=> \A c \in Circuits : MemberVerifies(audit.artifact, c)
          /\ (\E c \in Circuits : ~audit.artifact.proofs[c].proof.intact)
                => ~audit.verdict
    /\ (script.name = "composite" /\ script.pc = "done") =>
          (script.allValid <=> \A c \in Circuits : MemberVerifies(script.composite, c))

\* one member tampered, the other two verify, the verdict is false
C6_Witness ==
    /\ audit.kind = "composite"
    /\ ~audit.artifact.proofs["evaluation_attestation"].proof.intact
    /\ audit.results["compute_threshold"]
    /\ audit.results["policy_compliance"]
    /\ ~audit.verdict

\* C7: when the proving call of generateProof / fullProveAndPersist fails,
\* the proof file and the public-signals file of every circuit are what they
\* were when the call began.
C7_FailedGenerationWritesNothing ==
    script.call.failed =>
        /\ proofFile = script.call.proofBefore
        /\ publicFile = script.call.publicBefore

\* the demo's negative test failed and the compliant files are still there
C7_Witness ==
    /\ script.name = "demo" /\ script.pc = "done"
    /\ script.call.failed /\ script.call.circuit = "compute_threshold"
    /\ proofFile["compute_threshold"] = script.res["compute_threshold"].proof
    /\ proofFile["compute_threshold"].intact
    /\ publicFile["compute_threshold"] = << 1, DemoThreshold >>

\* (proof, publicSignals) is what a successful generation of circuit c
\* returned in run r
GeneratedIn(r, c, proof, publicSignals) ==
    \E g \in generated :
        /\ g.run = r /\ g.circuit = c
        /\ g.proof = proof /\ g.publicSignals = publicSignals

SubmissionRun == script.name \in {"composite", "pack"}

\* C8 (as claimed): when one member's generation fails, the generations of
\* the other members of the submission still run and their results are
\* available to the caller when the run ends.
C8_OtherMembersStillGenerated ==
    (SubmissionRun /\ script.pc \in {"done", "exit1"} /\ script.failed # {})
        => \A c \in Circuits \ script.failed : script.res[c].ok

\* C8 (amended): a failed generation of one member is not caught before
\* main().catch: the run stops there with status 1, the results of the
\* members generated before it are unchanged, the members after it are never
\* generated, and no composite or artifacts file is written for the run.
C8_FailureAbortsSubmission ==
    (SubmissionRun /\ script.failed # {}) =>
        /\ script.pc = "exit1" /\ script.exitCode = 1
        /\ script.failed = {Order[script.cur]}
        /\ \A i \in 1 .. 3 :
              /\ i < script.cur =>
                    /\ script.res[Order[i]].ok
                    /\ GeneratedIn(runs, Order[i], script.res[Order[i]].proof,
                                   script.res[Order[i]].publicSignals)
              /\ i >= script.cur => script.res[Order[i]] = NoResult
        /\ compositeFile.timestamp # runs
        /\ runs \in DOMAIN packFiles => packFiles[runs] = NoPackDir

\* a pack whose second member fails: the first result is held, the third
\* member was never generated
C8_Witness ==
    /\ script.name = "pack" /\ script.pc = "exit1"
    /\ script.failed = {"evaluation_attestation"}
    /\ script.res["compute_threshold"].ok
    /\ script.res["policy_compliance"] = NoResult
    /\ WitnessOk("policy_compliance", script.inputs["policy_compliance"])

\* C9: every member of a composite that was assembled or written
\* (composite_proof.json, the composite object, artifacts.json) is the
\* unmodified pair a successful generation of its circuit returned in the
\* same run; no member comes from a generation that failed.
C9_CompositeMembersGenerated ==
    /\ compositeFile # NoComposite =>
          \A c \in Circuits :
              GeneratedIn(compositeFile.timestamp, c, compositeFile.proofs[c].proof,
                          compositeFile.proofs[c].publicSignals)
    /\ script.composite # NoComposite =>
          \A c \in Circuits :
              /\ GeneratedIn(runs, c, script.composite.proofs[c].proof,
                             script.composite.proofs[c].publicSignals)
              /\ c \notin script.failed
    /\ \A s \in DOMAIN packFiles :
          packFiles[s].artifacts # NoArtifacts =>
              \A c \in Circuits :
                  GeneratedIn(packFiles[s].artifacts.generated_at, c,
                              packFiles[s].artifacts.proofs[c].proof,
                              packFiles[s].artifacts.proofs[c].publicSignals)

\* a composite run has ended after a policy-pack run: both bundles exist
C9_Witness ==
    /\ script.name = "composite" /\ script.pc = "done"
    /\ compositeFile = script.composite
    /\ compositeFile.timestamp = 2
    /\ 1 \in DOMAIN packFiles
    /\ packFiles[1].artifacts.generated_at = 1
    /\ \A c \in Circuits : compositeFile.proofs[c].proof.intact

\* C10 (as claimed): verification returns true only when the proof and the
\* public vector come from the same generation and the key is that of the
\* proof's circuit; a proof from another generation is rejected.
C10_OnlySameGeneration ==
    (audit.kind = "verify" /\ audit.verdict) =>
        /\ audit.sigFrom = audit.proofFrom
        /\ audit.key = audit.proof.circuit

\* C10 (amended): verification returns true exactly when the proof is an
\* unaltered proof of some successful generation, the public vector equals
\* the public signals of that generation, and the key is the key of that
\* generation's circuit.
C10_OnlyMatchingTriple ==
    audit.kind = "verify" =>
        (audit.verdict <=>
            \E g \in generated :
                /\ g.proof = audit.proof
                /\ g.publicSignals = audit.publicSignals
                /\ g.circuit = audit.key)

\* a genuine proof under its own key with another valid public vector of the
\* same circuit is rejected
C10_Witness ==
    /\ audit.kind = "verify"
    /\ audit.proof.intact
    /\ audit.key = audit.proof.circuit
    /\ audit.publicSignals # audit.proof.pub
    /\ \E g \in generated :
          g.circuit = audit.key /\ g.publicSignals = audit.publicSignals
    /\ ~audit.verdict

-----------------------------------------------------------------------------
(* Verification: frame, repetition *)

\* the step about to be taken, or being taken, is a call of verifyProof,
\* demo verify or verifyCompositeProof
VerificationStep ==
    \/ script.pc \in {"verify", "verifyComposite"}
    \/ audit' # audit /\ audit'.kind # None

\* C11: a call of verifyProof, demo verify or verifyCompositeProof, whatever
\* it returns, leaves every proof file, public-signals file, composite
\* artifact, policy-pack output and key file as it was, and leaves the
\* composite object and the results it was given unmodified.
C11_VerificationSideEffectFree ==
    [][VerificationStep =>
          /\ proofFile' = proofFile
          /\ publicFile' = publicFile
          /\ compositeFile' = compositeFile
          /\ packFiles' = packFiles
          /\ keyFile' = keyFile
          /\ script'.composite = script.composite
          /\ script'.res = script.res]_vars

\* a composite run has verified its bundle and the saved artifact is still
\* the object composeProofs built
C11_Witness ==
    /\ script.name = "composite" /\ script.pc = "done"
    /\ script.allValid
    /\ compositeFile = script.composite
    /\ compositeFile.version = "1.0"
    /\ \A c \in Circuits : keyFile[c] = c

\* C12: verifying the same (key, publicSignals, proof) again, after any
\* generations, file writes and verifications in between, returns the
\* boolean the earlier call returned; and the results a demo run holds are
\* what verifying its triples again gives.
C12_VerificationIdempotent ==
    /\ audit.kind = "reverify" => audit.verdict = earlier.verdict
    /\ (script.name = "demo" /\ script.pc \in {"done", "exit1"}) =>
          \A c \in DOMAIN script.results :
              script.results[c] =
                  verify(c, script.res[c].proof, script.res[c].publicSignals)

\* a triple that verified is verified again after a later run has replaced
\* the files of its circuit, and verifies again
C12_Witness ==
    /\ audit.kind = "reverify"
    /\ earlier.verdict /\ audit.verdict
    /\ proofFile[earlier.key].intact
    /\ proofFile[earlier.key] # earlier.proof

-----------------------------------------------------------------------------
(* Persisted artifacts over time *)

\* C13 (as claimed): once a proof file, a public-signals file or the
\* composite artifact has been written, no later step changes its content.
C13_WriteOnce ==
    [][/\ \A c \in Circuits :
            /\ proofFile[c] # NoProof => proofFile'[c] = proofFile[c]
            /\ publicFile[c] # NoSignals => publicFile'[c] = publicFile[c]
       /\ compositeFile # NoComposite => compositeFile' = compositeFile]_vars

\* the step is the write of the proof file (the public-signals file) of
\* circuit c that follows a successful fullProve in generateProof or
\* fullProveAndPersist
WritesAfterGeneration(c, pc) ==
    /\ script.name \in {"generate", "demo"}
    /\ script.pc = pc
    /\ script.call.circuit = c
    /\ ~script.call.failed
    /\ GeneratedIn(runs, c, script.call.proof, script.call.publicSignals)

\* C13 (amended): the files at the fixed paths are replaced, and only
\* replaced, by the write that follows a successful generation of their
\* circuit, with what that generation returned, and composite_proof.json
\* only by composeProofs of a composite run; the artifacts.json and the
\* report.md of a policy-pack run, each in the directory of its run, never
\* change once written, and no directory is removed.
C13_ReplacedOnlyByGeneration ==
    [][/\ \A c \in Circuits :
            /\ proofFile'[c] # proofFile[c] =>
                  /\ WritesAfterGeneration(c, "writeProof")
                  /\ proofFile'[c] = script.call.proof
            /\ publicFile'[c] # publicFile[c] =>
                  /\ WritesAfterGeneration(c, "writePublic")
                  /\ publicFile'[c] = script.call.publicSignals
       /\ compositeFile' # compositeFile =>
            /\ script.name = "composite" /\ script.pc = "compose"
            /\ compositeFile' = CompositeOf(script.res, runs)
       /\ \A s \in DOMAIN packFiles :
            /\ s \in DOMAIN packFiles'
            /\ packFiles[s].artifacts # NoArtifacts =>
                  packFiles'[s].artifacts = packFiles[s].artifacts
            /\ packFiles[s].report # NoReport =>
                  packFiles'[s].report = packFiles[s].report]_vars

\* a second run has generated again and replaced the proof file and the
\* public-signals file of a circuit that the first run had written
C13_Witness ==
    /\ script.name = "generate" /\ script.pc = "done" /\ runs = 2
    /\ \E g \in generated :
          /\ g.run = 1 /\ g.circuit = "compute_threshold"
          /\ g.proof # proofFile["compute_threshold"]
    /\ \E g \in generated :
          /\ g.run = 2 /\ g.circuit = "compute_threshold"
          /\ g.proof = proofFile["compute_threshold"]
          /\ g.publicSignals = publicFile["compute_threshold"]

-----------------------------------------------------------------------------
(* Calls made by a run *)

\* the calls of groth16.verify in `calls` are exactly one per member of
\* `composite`, each with the key of the member's own circuit and with the
\* member's own public signals and proof
OncePerMember(calls, composite) ==
    /\ Len(calls) = Cardinality(Circuits)
    /\ \A c \in Circuits :
          \E i \in 1 .. Len(calls) :
              /\ calls[i].circuit = c
              /\ calls[i].args = <<c, composite.proofs[c].publicSignals,
                                   composite.proofs[c].proof>>
              /\ \A j \in 1 .. Len(calls) : calls[j].circuit = c => j = i

C15_NoRetry ==
    \A i, j \in 1 .. Len(script.log) :
        (/\ script.log[i].op = script.log[j].op
         /\ script.log[i].circuit = script.log[j].circuit
         /\ script.log[i].args = script.log[j].args) => i = j

\* the demo has ended: seven calls, the last one the failed negative test,
\* made once
C15_Witness ==
    /\ script.name = "demo" /\ script.pc = "done"
    /\ Len(script.log) = 7
    /\ script.log[7] = Call("prove", "compute_threshold", <<NegativeInput>>, FALSE)
    /\ script.log[1] = Call("prove", "compute_threshold",
                            <<CompliantInputs["compute_threshold"]>>, TRUE)

-----------------------------------------------------------------------------
(* What the persisted artifacts and the errors depend on *)

\* the public inputs of run s, per circuit, for a run whose three
\* generations succeeded
PublicInputsOf(s) ==
    [c \in Circuits |->
        (CHOOSE g \in generated : g.run = s /\ g.circuit = c).input.pub]

PrivateInputsOf(s) ==
    [c \in Circuits |->
        (CHOOSE g \in generated : g.run = s /\ g.circuit = c).input.priv]

\* a policy-pack run that wrote both of its files
CompletePack(s) == s \in DOMAIN packFiles /\ packFiles[s].report # NoReport

\* what a policy-pack directory holds apart from the proof objects and the
\* time of the run
BesidesProofs(dir) ==
    [claims |-> [c \in Circuits |-> dir.artifacts.proofs[c].claim],
     publicSignals |-> [c \in Circuits |-> dir.artifacts.proofs[c].publicSignals],
     reportClaims |-> dir.report.claims,
     reportSignals |-> dir.report.publicSignals]

\* C16: two generations of a circuit with the same public input return the
\* same public signals and verify alike, whatever their private inputs; and
\* two policy-pack runs with the same public inputs persist, apart from the
\* proof objects and the time of the run, the same artifacts.json and
\* report.md.
C16_PrivateInputsNotPersisted ==
    /\ \A g1, g2 \in generated :
          (g1.circuit = g2.circuit /\ g1.input.pub = g2.input.pub) =>
              /\ g1.publicSignals = g2.publicSignals
              /\ verify(g1.circuit, g1.proof, g1.publicSignals) =
                    verify(g2.circuit, g2.proof, g2.publicSignals)
    /\ \A s1, s2 \in DOMAIN packFiles :
          (CompletePack(s1) /\ CompletePack(s2)
              /\ PublicInputsOf(s1) = PublicInputsOf(s2)) =>
                  BesidesProofs(packFiles[s1]) = BesidesProofs(packFiles[s2])

\* two complete policy-pack runs with the same public inputs and different
\* satisfying evaluation flags
C16_Witness ==
    /\ CompletePack(1) /\ CompletePack(2)
    /\ PublicInputsOf(1) = PublicInputsOf(2)
    /\ PrivateInputsOf(1)["evaluation_attestation"] #
          PrivateInputsOf(2)["evaluation_attestation"]
    /\ packFiles[1].artifacts.proofs["evaluation_attestation"].proof #
          packFiles[2].artifacts.proofs["evaluation_attestation"].proof

\* the private inputs a circuit can be given
PrivateInputs(circuit) ==
    CASE circuit = "compute_threshold" -> Field
      [] circuit = "evaluation_attestation" -> FlagArrays(EvalN)
      [] circuit = "policy_compliance" -> FlagArrays(PolicyN)

\* a step in which a generation call fails
GenerationFails ==
    /\ Len(script'.log) = Len(script.log) + 1
    /\ script'.log[Len(script'.log)].op = "prove"
    /\ ~script'.log[Len(script'.log)].ok

\* the input of the generation call that failed
FailedInput == script.log[Len(script.log)].args[1]

SameStatement(p, q) == [p EXCEPT !.id = 0] = [q EXCEPT !.id = 0]

\* the outcome of generateProof(c, input) called alone
Alone(c) == fullProve(c, tasks[c].input, 0)

\* C18: with the three generations in flight side by side, in every
\* interleaving a call returns exactly when it would alone, with the same
\* publicSignals and a proof of the same statement; its circuit's files hold
\* the returned pair once it has returned and are untouched before it writes
\* and when it is rejected; a call is rejected only by its own witness
\* computation; the keys are not written.
C18_ConcurrentAsSequential ==
    /\ keyFile = [c \in Circuits |-> c]
    /\ \A c \in Circuits :
          LET t == tasks[c] IN
          /\ t.pc = "returned" =>
                /\ Alone(c).ok
                /\ SameStatement(t.proof, Alone(c).proof)
                /\ t.publicSignals = Alone(c).publicSignals
                /\ proofFile[c] = t.proof
                /\ publicFile[c] = t.publicSignals
          /\ t.pc = "rejected" =>
                /\ ~Alone(c).ok
                /\ t.error = Alone(c).error
          /\ t.pc \in {"start", "fullProve", "mkdirSync", "writeProof", "rejected"} =>
                /\ proofFile[c] = NoProof
                /\ publicFile[c] = NoSignals
          /\ t.pc = "writePublic" =>
                /\ proofFile[c] = t.proof
                /\ publicFile[c] = NoSignals

\* all three calls have returned, their provers having settled in the
\* reverse of the order of generate-proof.js, and data/ was created by one
\* of them
C18_Witness ==
    /\ \A c \in Circuits : tasks[c].pc = "returned"
    /\ tasks["policy_compliance"].proof.id < tasks["evaluation_attestation"].proof.id
    /\ tasks["evaluation_attestation"].proof.id < tasks["compute_threshold"].proof.id
    /\ \A c \in Circuits : proofFile[c].id = tasks[c].proof.id
    /\ dataDir /\ genCount = Cardinality(Circuits)

\* C19: for every width n that LessThan accepts and all a, b below 2^n the
\* constraints of LessThan(n) have a satisfying assignment and every
\* satisfying assignment gives out = 1 if a < b and out = 0 otherwise.
C19_StrictComparator ==
    (gadget.template = "LessThan" /\ gadget.pc = "done") =>
        /\ gadget.sat # {}
        /\ gadget.outs = {IF gadget.in[1] < gadget.in[2] THEN 1 ELSE 0}

\* the widest comparator on equal inputs: out = 0
C19_Witness ==
    /\ gadget.template = "LessThan" /\ gadget.pc = "done"
    /\ gadget.n = MaxComparatorBits
    /\ gadget.in[1] = gadget.in[2] /\ gadget.in[1] = Pow2(gadget.n) - 1
    /\ gadget.outs = {0}

\* the bits weighted by the powers of two, as an integer
RECURSIVE WeightedSum(_, _)
WeightedSum(out, n) ==
    IF n = 0 THEN 0 ELSE WeightedSum(out, n - 1) + out[n - 1] * Pow2(n - 1)

\* the instance is satisfiable exactly for in < 2^n, by at most one
\* assignment, all of whose bits are 0 or 1 and whose weighted sum is in
DecomposesExactly ==
    /\ gadget.sat # {} <=> gadget.in[1] < Pow2(gadget.n)
    /\ Cardinality(gadget.sat) <= 1
    /\ \A out \in gadget.sat :
          /\ \A i \in 0 .. (gadget.n - 1) : out[i] \in {0, 1}
          /\ WeightedSum(out, gadget.n) = gadget.in[1]

\* C20 as stated, for every width: violated at the first width with 2^n
\* above the field prime, where in and in + p are both below 2^n.
C20_EveryWidth ==
    (gadget.template = "Num2Bits" /\ gadget.pc = "done") => DecomposesExactly

\* C20: for every width n with 2^n below the field prime and every field
\* value x, Num2Bits(n) has a satisfying assignment if and only if x < 2^n;
\* it is then the only one, its bits are 0 or 1 and their weighted sum is x.
C20_WidthsBelowPrime ==
    (/\ gadget.template = "Num2Bits" /\ gadget.pc = "done"
     /\ Pow2(gadget.n) < FieldPrime) => DecomposesExactly

\* the widest decomposition the circuits instantiate, on the largest value
\* that fits: one assignment, all bits 1
C20_Witness ==
    /\ gadget.template = "Num2Bits" /\ gadget.pc = "done"
    /\ gadget.n = MaxComparatorBits + 1
    /\ gadget.in[1] = Pow2(gadget.n) - 1
    /\ gadget.sat = {[i \in 0 .. (gadget.n - 1) |-> 1]}

\* C21: at the width of the aggregation circuits, for every sum of at most
\* MaxFlagCount flags and every public minimum k up to MaxFlagCount, the
\* constraints of GreaterEqThan have a satisfying assignment, and every
\* satisfying assignment gives out = 1 - lt.out, which is 1 if sum >= k and
\* 0 otherwise.
C21_GreaterEqAtWidth ==
    (gadget.template = "GreaterEqThan" /\ gadget.pc = "done") =>
        /\ gadget.sat # {}
        /\ \A bits \in gadget.sat :
              GreaterEqThanOut(bits, gadget.n) = 1 - LessThanOut(bits, gadget.n)
        /\ gadget.outs = {IF gadget.in[1] >= gadget.in[2] THEN 1 ELSE 0}

\* the largest sum against an equal minimum: out = 1
C21_Witness ==
    /\ gadget.template = "GreaterEqThan" /\ gadget.pc = "done"
    /\ gadget.n = AggBits
    /\ gadget.in[1] = MaxFlagCount /\ gadget.in[2] = MaxFlagCount
    /\ gadget.outs = {1}

\* the signal completedSum[i] / itemSum[i] of the called circuit
RunningSum(i) ==
    IF cres.circuit = "evaluation_attestation"
    THEN completedSum(cres.input.priv, i)
    ELSE itemSum(cres.input.priv, i)

\* C22: in every satisfying witness of an aggregation circuit the running
\* sums start at the first flag, each is the one before plus its flag as
\* integers, so they never decrease and rise by at most 1, and the last one
\* is the number of flags set to 1, between 0 and N.
C22_RunningSums ==
    (IsAggCall /\ Satisfiable(cres.circuit, cres.input)) =>
        LET N == FlagCount(cres.circuit)
            f == cres.input.priv IN
        /\ RunningSum(0) = f[0]
        /\ \A i \in 1 .. (N - 1) :
              /\ RunningSum(i) = RunningSum(i - 1) + f[i]
              /\ RunningSum(i - 1) <= RunningSum(i)
              /\ RunningSum(i) <= RunningSum(i - 1) + 1
        /\ RunningSum(N - 1) = IntSum(f, N)
        /\ RunningSum(N - 1) \in 0 .. N

\* a successful evaluation_attestation call with one flag unset: the sums
\* run 1, 2, 3, 3, 4
C22_Witness ==
    /\ IsAggCall /\ cres.circuit = "evaluation_attestation" /\ cres.ok
    /\ cres.input.priv = OneUnset(EvalN)
    /\ RunningSum(2) = RunningSum(3)
    /\ RunningSum(EvalN - 1) = EvalN - 1

\* C23 (as claimed): in every artifacts.json of a policy-pack run, the value
\* in each member's claim label is the public input in the member's
\* publicSignals, and the run passed the pack's public value of each circuit
\* to that circuit.  Violated by a pack whose required count is not below
\* the field prime: the label carries the pack's value, the publicSignals
\* the value reduced into the field.
C23_LabelIsPublicInput ==
    \A s \in DOMAIN packFiles :
        packFiles[s].artifacts # NoArtifacts =>
            \A c \in Circuits :
                LET m == packFiles[s].artifacts.proofs[c] IN
                /\ m.claim[2] = m.publicSignals[2]
                /\ \E g \in generated :
                      /\ g.run = s /\ g.circuit = c
                      /\ g.input.pub = packFiles[s].artifacts.proofs[c].claim[2]
                      /\ ToField(g.input.pub) = m.publicSignals[2]

\* the i-th verifyProof call of the run found a file missing and threw
Threw(i) ==
    script.log[i].args[2] = NoSignals \/ script.log[i].args[3] = NoProof

\* C24: when the verification script has ended, it has called verifyProof
\* once for each of the three circuits in order, results has one entry per
\* circuit, the entry of a call that threw is false and that of a call that
\* did not is what groth16.verify returned, and if any call threw the script
\* has not reported all requirements verified; it never ends in the error
\* exit.
C24_ThrowBecomesFalse ==
    (script.name = "verify" /\ script.pc # "verify") =>
        /\ script.pc = "done"
        /\ DOMAIN script.results = Circuits
        /\ Len(script.log) = Len(Order)
        /\ \A i \in 1 .. Len(Order) :
              LET call == script.log[i] IN
              /\ call.op = "verify" /\ call.circuit = Order[i]
              /\ Threw(i) => ~script.results[Order[i]]
              /\ ~Threw(i) =>
                    script.results[Order[i]] =
                        groth16Verify(call.args[1], call.args[2], call.args[3])
        /\ (\E i \in 1 .. Len(Order) : Threw(i)) => ~script.allValid

\* the script has ended after a generation run that stopped at the second
\* circuit: the first call returned true, the second and third threw
C24_Witness ==
    /\ script.name = "verify" /\ script.pc = "done"
    /\ script.results["compute_threshold"]
    /\ Threw(2) /\ Threw(3)
    /\ ~script.results["evaluation_attestation"]
    /\ ~script.results["policy_compliance"]
    /\ ~script.allValid

\* C25: verification of a composite that lacks the entry of one of the three
\* circuits throws at the first circuit without an entry: the members before
\* it have been verified, no results object is returned, nothing is
\* reported verified, and the run ends with exit status 1.
C25_IncompleteNeverValid ==
    (audit.kind = "received" /\ DOMAIN audit.artifact.proofs # Circuits) =>
        /\ ~audit.verdict
        /\ audit.results = << >>
        /\ audit.exitCode = 1
        /\ Len(audit.calls) = FirstMissing(audit.artifact) - 1
        /\ \A i \in 1 .. Len(audit.calls) : audit.calls[i].circuit = Order[i]

\* a composite with only its last entry missing: two members verified, then
\* the error exit
C25_Witness ==
    /\ audit.kind = "received"
    /\ DOMAIN audit.artifact.proofs = Circuits \ {"policy_compliance"}
    /\ Len(audit.calls) = 2 /\ audit.calls[1].ok /\ audit.calls[2].ok
    /\ ~audit.verdict /\ audit.exitCode = 1

\* C26: in a policy-pack run artifacts.json is written only after the three
\* proofs were generated in the run, compute_threshold first and
\* policy_compliance last, and report.md only after artifacts.json; a run
\* in which a generation failed writes neither and exits with status 1.
C26_PackWriteOrder ==
    /\ \A s \in DOMAIN packFiles :
          /\ packFiles[s].artifacts # NoArtifacts =>
                /\ \A c \in Circuits :
                      \E g \in generated :
                          /\ g.run = s /\ g.circuit = c
                          /\ g.proof = packFiles[s].artifacts.proofs[c].proof
                /\ \A i, j \in 1 .. Len(Order) :
                      i < j => packFiles[s].artifacts.proofs[Order[i]].proof.id <
                               packFiles[s].artifacts.proofs[Order[j]].proof.id
          /\ packFiles[s].report # NoReport => packFiles[s].artifacts # NoArtifacts
    /\ script.name = "pack" =>
          /\ script.pc = "prove" => packFiles[runs] = NoPackDir
          /\ script.pc = "artifacts" =>
                /\ packFiles[runs] = NoPackDir
                /\ \A c \in Circuits : script.res[c].ok
          /\ script.pc = "report" =>
                /\ packFiles[runs].artifacts # NoArtifacts
                /\ packFiles[runs].report = NoReport
          /\ script.failed # {} =>
                /\ packFiles[runs] = NoPackDir
                /\ script.pc = "exit1" /\ script.exitCode = 1

\* a pack run that wrote both files, followed by one whose generation
\* failed and whose directory stayed empty
C26_Witness ==
    /\ 1 \in DOMAIN packFiles /\ packFiles[1].report # NoReport
    /\ script.name = "pack" /\ script.pc = "exit1" /\ script.failed # {}
    /\ runs = 2 /\ packFiles[2] = NoPackDir

C28_VerdictIgnoresLabels ==
    audit.kind = "relabelled" =>
        /\ \A c \in Circuits :
              /\ audit.other.proofs[c].proof = audit.artifact.proofs[c].proof
              /\ audit.other.proofs[c].publicSignals =
                     audit.artifact.proofs[c].publicSignals
        /\ audit.other # audit.artifact
        /\ audit.otherResults = audit.results
        /\ audit.otherVerdict = audit.verdict

\* a composite that verifies, with every such field rewritten, verifies
C28_Witness ==
    /\ audit.kind = "relabelled"
    /\ audit.other.version # audit.artifact.version
    /\ audit.other.timestamp # audit.artifact.timestamp
    /\ audit.other.metadata # audit.artifact.metadata
    /\ audit.other.proofs["compute_threshold"].claim #
           audit.artifact.proofs["compute_threshold"].claim
    /\ audit.verdict /\ audit.otherVerdict

\* C29: for every input of the whole field, generation succeeds exactly when
\* some assignment satisfies the circuit's constraints, so the bits the
\* witness program assigns satisfy them whenever any bits do; for the
\* threshold circuit this is decided by the comparator and valid === 1
\* alone, whatever threshold - privateCompute is.
C29_WitnessExact ==
    cres.called =>
        /\ cres.ok <=> Satisfiable(cres.circuit, cres.input)
        /\ cres.ok <=> AssertFailed(cres.circuit, cres.input) = NoError
        /\ IsThresholdCall =>
              /\ cres.ok <=>
                     \E bits \in [0 .. ThresholdBits -> BoolRoots] :
                         /\ LessThan(cres.input.priv, cres.input.pub, bits,
                                     ThresholdBits)
                         /\ ComputeThresholdValid(bits) = 1
              /\ ~cres.ok =>
                     AssertFailed(cres.circuit, cres.input).template
                         \in {"Num2Bits", "ComputeThreshold"}

\* a threshold call with a satisfiable input and a difference above half the
\* comparator's range: the hint's bits satisfy the constraints
C29_Witness ==
    /\ IsThresholdCall /\ cres.ok
    /\ Satisfiable(cres.circuit, cres.input)
    /\ FSub(cres.input.pub, cres.input.priv) > Pow2(ThresholdBits - 1)
    /\ cres.publicSignals = << 1, cres.input.pub >>

====
